---- MODULE Spec2Model ----
(***************************************************************************)
(* Price Tracker API (src/main.py, src/schemas.py): the user, trackitem    *)
(* and pricepoint collections, the request handlers that read and write    *)
(* them, and the background job check_prices_job.                          *)
(*                                                                         *)
(* A string that the code splits at "@" is a sequence of its parts:        *)
(* <<"a", "x">> is "a@x" and <<"noat">> holds no "@".  Prices are whole    *)
(* SEK.  A Python None is the value None ("None"), NoHash (<<>>) for a     *)
(* password hash and NoPrice (-1) for a price no document holds.           *)
(***************************************************************************)
EXTENDS Integers, Sequences, FiniteSets, Bags, TLC

VARIABLES
    user,        \* collection "user": sequence of documents, insertion order
    trackitem,   \* collection "trackitem"
    pricepoint,  \* collection "pricepoint"
    issued,      \* emails for which create_token has signed a token
    reqs,        \* bag of the requests between two store calls of their handler
    resp,        \* the response of the request that completed last
    hashmod,     \* hash(url) % 3 in the running process, per url
    now,         \* datetime.now(timezone.utc)
    job,         \* check_prices_job: position in the running cycle
    cyc,         \* what the running (or last) cycle loaded and did
    outbox,      \* the sendMessage calls made to the Telegram API
    peak         \* most create_track requests of an owner in flight at once

vars == <<user, trackitem, pricepoint, issued, reqs, resp, hashmod, now, job, cyc, outbox, peak>>

-----------------------------------------------------------------------------
(* Bounds of the model *)

MaxCycles == 2
MaxInFlight == 2
MaxItems == 2
MaxClock == 1
MaxCalls == 1

(* Inputs *)

None == "None"
NoHash == <<>>
NoPrice == -1

Emails == {<<"a", "x">>, <<"b", "x">>}
Passwords == {"p1", "p2"}
Names == {None, "n"}
Urls == {"u1"}
Targets == {3000, 4000}
TelegramConfigs == {[token |-> "tok", chat_id |-> "chat"], [token |-> "tok", chat_id |-> ""]}

-----------------------------------------------------------------------------
(* Helpers of the store *)

\* database.create_document(collection, doc): the collection with doc appended
create_document(coll, doc) == Append(coll, doc)

\* db["user"].find({"email": email}): the matching documents, in store order
UsersWith(email) == SelectSeq(user, LAMBDA u : u.email = email)

\* a count over the owner's items in "deal" only
count_documentsOfDeals(email) ==
    Len(SelectSeq(trackitem, LAMBDA t : t.user_email = email /\ t.status = "deal"))

\* db["trackitem"].count_documents({"user_email": email})
count_documents(email) == Len(SelectSeq(trackitem, LAMBDA t : t.user_email = email))

\* Python truthiness of an Optional[str]
Truthy(v) == v \notin {None, ""}

-----------------------------------------------------------------------------
(* Utility: src/main.py 34-54 *)

hash_password(p) == <<"bcrypt", p>>

verify_password(p, h) == h = <<"bcrypt", p>>

\* create_token signs the subject with JWT_SECRET
create_token(email) == [sub |-> email, sig |-> "JWT_SECRET"]

\* jwt.decode(token, JWT_SECRET): the signature verifies
SignatureValid(token) == token.sig = "JWT_SECRET"

\* str.lower() on the schemes a client sends
Lower(s) == IF s = "Bearer" THEN "bearer" ELSE IF s = "Basic" THEN "basic" ELSE s

\* a get_current_user that decodes the token and does not verify its signature
UnauthenticatedUnverified(authorization) ==
    \/ authorization = <<>>
    \/ Len(authorization) # 2
    \/ Len(authorization) = 2 /\ Lower(authorization[1].scheme) # "bearer"

\* a get_current_user that takes a server-signed token under any scheme
UnauthenticatedAnyScheme(authorization) ==
    \/ authorization = <<>>
    \/ Len(authorization) # 2
    \/ Len(authorization) = 2 /\ ~SignatureValid(authorization[2])

\* An Authorization header is the sequence of its parts, split at the first
\* space: <<>> is a missing header, <<scheme, token>> a well-formed one.
\* get_current_user raises 401 for exactly these headers.
Unauthenticated(authorization) ==
    \/ authorization = <<>>
    \/ Len(authorization) # 2
    \/ Len(authorization) = 2 /\ Lower(authorization[1].scheme) # "bearer"
    \/ Len(authorization) = 2 /\ ~SignatureValid(authorization[2])

get_current_user(authorization) == authorization[2].sub

\* the detail of the 401 that get_current_user raises
AuthError(authorization) ==
    IF authorization = <<>> THEN "Missing Authorization header" ELSE "Invalid token"

\* the headers a client may send: none, a scheme other than Bearer, a token
\* signed with another key, and the tokens the server has issued
Authorizations ==
    {<<>>} \cup {<<[scheme |-> "Basic"], create_token(e)>> : e \in issued}
           \cup {<<[scheme |-> "Bearer"], [sub |-> e, sig |-> "other"]>> : e \in Emails}
           \cup {<<[scheme |-> "Bearer"], create_token(e)>> : e \in issued}

-----------------------------------------------------------------------------
(* Documents: src/schemas.py *)

\* EmailStr: a local part and a domain, both non-empty
EmailValid(email) == Len(email) = 2 /\ email[1] # "" /\ email[2] # ""

User(email, password_hash, name) ==
    [email |-> email, password_hash |-> password_hash, name |-> name,
     telegram_token |-> None, telegram_chat_id |-> None]

TrackItem(id, user_email, url, target_price) ==
    [_id |-> id, user_email |-> user_email, url |-> url, target_price |-> target_price,
     status |-> "tracking", current_price |-> NoPrice]

PricePoint(trackitem_id, price, recorded_at) ==
    [trackitem_id |-> trackitem_id, price |-> price, recorded_at |-> recorded_at]

\* a response, with the request it answers: the operation, the caller (or the
\* email of the request body), the password of the body (arg) and the
\* trackitem id asked for or created (id)
Response(op, email, arg, code, detail, items) ==
    [op |-> op, email |-> email, arg |-> arg, id |-> 0, code |-> code, detail |-> detail,
     items |-> items]

NoRequest == [op |-> "none", email |-> <<>>, url |-> "", target |-> 0, count |-> 0,
              password |-> "", name |-> None]

IdleJob == [pc |-> "idle", items |-> <<>>, i |-> 0, price |-> NoPrice,
            token |-> None, chat_id |-> None]

\* the record of a cycle: its number, the documents the job loaded, the ids whose
\* PricePoint it saved and whose document it updated, the notification step of
\* each deal <<id, price, outcome>>, the exceptions <<id, place>> and the length
\* of outbox when the cycle began; and, over all cycles, the pairs <<n, id>> of
\* a cycle and an item whose PricePoint it saved (points) and whose document it
\* updated (updates); missed says that the timer fired during the cycle
NoCycle == [n |-> 0, loaded |-> <<>>, pointed |-> {}, updated |-> {}, notify |-> {},
            failed |-> {}, outbox0 |-> 0, points |-> {}, updates |-> {}, missed |-> FALSE]

-----------------------------------------------------------------------------
(* Initial state: empty collections, the scheduler started, no cycle run *)

Init ==
    /\ user = <<>>
    /\ trackitem = <<>>
    /\ pricepoint = <<>>
    /\ issued = {}
    /\ reqs = EmptyBag
    /\ resp = Response("none", <<>>, "", 0, "", <<>>)
    /\ hashmod \in [Urls -> 0..2]
    /\ now = 0
    /\ job = IdleJob
    /\ cyc = NoCycle
    /\ outbox = <<>>
    /\ peak = [e \in Emails |-> 0]

-----------------------------------------------------------------------------
(* Auth: src/main.py 114-146 *)

\* a register that looks only for documents with a password
RegisterFindPasswordOnly(email, password, name) ==
    /\ IF SelectSeq(UsersWith(email), LAMBDA u : u.password_hash # NoHash) # <<>>
       THEN /\ resp' = Response("register", email, password, 400, "Email already registered", <<>>)
            /\ reqs' = reqs
       ELSE /\ reqs' = reqs (+) SetToBag({[NoRequest EXCEPT !.op = "register", !.email = email,
                                                     !.password = password, !.name = name]})
            /\ resp' = resp
    /\ UNCHANGED <<user, trackitem, pricepoint, issued, hashmod, now, job, cyc, outbox, peak>>

\* register, up to its find_one: 400 when the email has a document
RegisterFind(email, password, name) ==
    /\ IF UsersWith(email) # <<>>
       THEN /\ resp' = Response("register", email, password, 400, "Email already registered", <<>>)
            /\ reqs' = reqs
       ELSE /\ reqs' = reqs (+) SetToBag({[NoRequest EXCEPT !.op = "register", !.email = email,
                                                     !.password = password, !.name = name]})
            /\ resp' = resp
    /\ UNCHANGED <<user, trackitem, pricepoint, issued, hashmod, now, job, cyc, outbox, peak>>

\* register, from create_document on
RegisterInsert(r) ==
    /\ r \in BagToSet(reqs)
    /\ r.op = "register"
    /\ user' = create_document(user, User(r.email, hash_password(r.password), r.name))
    /\ issued' = issued \cup {r.email}
    /\ resp' = Response("register", r.email, r.password, 200, "token", <<>>)
    /\ reqs' = reqs (-) SetToBag({r})
    /\ UNCHANGED <<trackitem, pricepoint, hashmod, now, job, cyc, outbox, peak>>

\* a login that checks that the account has a password, and not which
LoginFailsUnverified(docs, password) ==
    \/ docs = <<>>
    \/ docs # <<>> /\ docs[1].password_hash = NoHash

\* the condition under which login raises 401
LoginFails(docs, password) ==
    \/ docs = <<>>
    \/ docs # <<>> /\ docs[1].password_hash = NoHash
    \/ docs # <<>> /\ docs[1].password_hash # NoHash
                   /\ ~verify_password(password, docs[1].password_hash)

login(email, password) ==
    /\ IF LoginFails(UsersWith(email), password)
       THEN /\ resp' = Response("login", email, password, 401, "Invalid credentials", <<>>)
            /\ issued' = issued
       ELSE /\ resp' = Response("login", email, password, 200, "token", <<>>)
            /\ issued' = issued \cup {email}
    /\ UNCHANGED <<user, trackitem, pricepoint, reqs, hashmod, now, job, cyc, outbox, peak>>

\* google_auth, up to its find_one; token is the string split at "@"
GoogleFind(token) ==
    /\ IF Len(token) < 2
       THEN /\ resp' = Response("google", token, "", 400, "Invalid Google token (demo expects an email)", <<>>)
            /\ reqs' = reqs
       ELSE /\ reqs' = reqs (+) SetToBag({[NoRequest EXCEPT !.op = "google", !.email = token,
                                        !.count = Len(UsersWith(token)),
                                        !.name = IF UsersWith(token) = <<>> THEN None
                                                 ELSE UsersWith(token)[1].name]})
            /\ resp' = resp
    /\ UNCHANGED <<user, trackitem, pricepoint, issued, hashmod, now, job, cyc, outbox, peak>>

\* google_auth, from "if not doc" on
\* a google_auth that stores a user whether or not its lookup found one
GoogleFinishAlwaysCreates(r) ==
    /\ r \in BagToSet(reqs)
    /\ r.op = "google"
    /\ user' = create_document(user, User(r.email, NoHash, r.email[1]))
    /\ issued' = issued \cup {r.email}
    /\ resp' = Response("google", r.email, "", 200, r.name, <<>>)
    /\ reqs' = reqs (-) SetToBag({r})
    /\ UNCHANGED <<trackitem, pricepoint, hashmod, now, job, cyc, outbox, peak>>

\* google_auth from "if not doc" on: User(email=...) validates the EmailStr, and
\* its ValidationError is not caught, so the request ends in a 500 before
\* anything is stored or issued
GoogleFinish(r) ==
    /\ r \in BagToSet(reqs)
    /\ r.op = "google"
    /\ IF r.count = 0 /\ ~EmailValid(r.email)
       THEN /\ resp' = Response("google", r.email, "", 500, "Internal Server Error", <<>>)
            /\ UNCHANGED <<user, issued>>
       ELSE /\ user' = IF r.count = 0
                       THEN create_document(user, User(r.email, NoHash, r.email[1]))
                       ELSE user
            /\ issued' = issued \cup {r.email}
            /\ resp' = Response("google", r.email, "", 200, r.name, <<>>)
    /\ reqs' = reqs (-) SetToBag({r})
    /\ UNCHANGED <<trackitem, pricepoint, hashmod, now, job, cyc, outbox, peak>>

-----------------------------------------------------------------------------
(* Tracking: src/main.py 150-181 *)

\* the number of products of the free tier
FreeTierLimit == 5

\* a limit that lets the count reach 5 before it refuses
QuotaExceededAbove(count) == count > FreeTierLimit

\* "if count >= 5": create_track raises 403
QuotaExceeded(count) == count >= FreeTierLimit

\* the create_track requests of an owner between their count and their insert
InFlight(rs, email) ==
    BagCardinality([r \in {q \in BagToSet(rs) : q.op = "create_track" /\ q.email = email} |-> rs[r]])

Max(a, b) == IF a >= b THEN a ELSE b

\* create_track, up to "if count >= 5"
CreateTrackCount(authorization, url, target_price) ==
    /\ IF Unauthenticated(authorization)
       THEN /\ resp' = Response("create_track", <<>>, "", 401, AuthError(authorization), <<>>)
            /\ UNCHANGED <<reqs, peak>>
       ELSE LET user_email == get_current_user(authorization)
                count == count_documents(user_email)
            IN  IF QuotaExceeded(count)
                THEN /\ resp' = Response("create_track", user_email, "", 403,
                                         "Free tier allows up to 5 products", <<>>)
                     /\ UNCHANGED <<reqs, peak>>
                ELSE /\ reqs' = reqs (+) SetToBag({[NoRequest EXCEPT !.op = "create_track",
                                                 !.email = user_email, !.url = url,
                                                 !.target = target_price, !.count = count]})
                     /\ peak' = [peak EXCEPT ![user_email] = Max(@, InFlight(reqs', user_email))]
                     /\ resp' = resp
    /\ UNCHANGED <<user, trackitem, pricepoint, issued, hashmod, now, job, cyc, outbox>>

\* a fresh ObjectId
NewId == Len(trackitem) + 1

\* create_track, from TrackItem(...) on
CreateTrackInsert(r) ==
    /\ r \in BagToSet(reqs)
    /\ r.op = "create_track"
    /\ trackitem' = create_document(trackitem,
                        TrackItem(NewId, r.email, r.url, r.target))
    /\ resp' = [Response("create_track", r.email, "", 200, "created", <<>>) EXCEPT !.id = NewId]
    /\ reqs' = reqs (-) SetToBag({r})
    /\ UNCHANGED <<user, pricepoint, issued, hashmod, now, job, cyc, outbox, peak>>

Min(a, b) == IF a <= b THEN a ELSE b

\* database.get_documents(collection, {"user_email": user_email}, limit): the
\* first limit matches
get_documents(coll, user_email, limit) ==
    LET found == SelectSeq(coll, LAMBDA t : t.user_email = user_email)
    IN  SubSeq(found, 1, Min(limit, Len(found)))

ListLimit == 100

\* "d['id'] = str(d.pop('_id', ''))" for each document: _id leaves, id enters
Listed(docs) ==
    [i \in 1..Len(docs) |->
        [id |-> docs[i]._id, user_email |-> docs[i].user_email, url |-> docs[i].url,
         target_price |-> docs[i].target_price, status |-> docs[i].status,
         current_price |-> docs[i].current_price]]

\* a list_tracks that asks the store for the documents of every owner
list_tracksOfAll(authorization) ==
    /\ IF Unauthenticated(authorization)
       THEN resp' = Response("list_tracks", <<>>, "", 401, AuthError(authorization), <<>>)
       ELSE resp' = Response("list_tracks", get_current_user(authorization), "", 200, "",
                             Listed(SubSeq(trackitem, 1, Min(ListLimit, Len(trackitem)))))
    /\ UNCHANGED <<user, trackitem, pricepoint, issued, reqs, hashmod, now, job, cyc, outbox, peak>>

list_tracks(authorization) ==
    /\ IF Unauthenticated(authorization)
       THEN resp' = Response("list_tracks", <<>>, "", 401, AuthError(authorization), <<>>)
       ELSE LET user_email == get_current_user(authorization)
            IN  resp' = Response("list_tracks", user_email, "", 200, "",
                                 Listed(get_documents(trackitem, user_email, ListLimit)))
    /\ UNCHANGED <<user, trackitem, pricepoint, issued, reqs, hashmod, now, job, cyc, outbox, peak>>

\* The trackitem_id of a request is a string.  n > 0 stands for the 24 hex
\* digits of ObjectId n in lower case, as str() writes them and as the job
\* stores them in PricePoint.trackitem_id; -n for the same digits in upper
\* case, which ObjectId() reads as the same id; 0 for a string that is no
\* ObjectId.
ObjectIdValid(trackitem_id) == trackitem_id # 0

\* ObjectId(trackitem_id), for a string that parses
ObjectIdOf(trackitem_id) == IF trackitem_id < 0 THEN -trackitem_id ELSE trackitem_id

\* a get_pricepoints that looks the item up and does not compare its owner
NotFoundAnyOwner(items, trackitem_id, user_email) ==
    LET ti == SelectSeq(items, LAMBDA t : t._id = ObjectIdOf(trackitem_id))
    IN  \/ ~ObjectIdValid(trackitem_id)
        \/ ti = <<>>

\* "if not ti or ti.get('user_email') != user_email", with ti the find_one of
\* the id in items (None when the id does not parse): get_pricepoints raises 404
NotFound(items, trackitem_id, user_email) ==
    LET ti == SelectSeq(items, LAMBDA t : t._id = ObjectIdOf(trackitem_id))
    IN  \/ ~ObjectIdValid(trackitem_id)
        \/ ti = <<>>
        \/ ti # <<>> /\ ti[1].user_email # user_email

Reverse(s) == [i \in 1..Len(s) |-> s[Len(s) + 1 - i]]

PointsLimit == 50

\* find({"trackitem_id": trackitem_id}).sort("recorded_at", -1).limit(50), with
\* the string of the request as it came, then reversed and cut to price and
\* recorded_at.  The collection is in recorded_at order
\* (documents are appended with the clock's value), so the descending sort is
\* the reversed store order.
PointsOf(points, trackitem_id) ==
    LET found == SelectSeq(points, LAMBDA p : p.trackitem_id = trackitem_id)
        desc == Reverse(found)
        page == SubSeq(desc, 1, Min(PointsLimit, Len(desc)))
        data == [i \in 1..Len(page) |-> [price |-> page[i].price, recorded_at |-> page[i].recorded_at]]
    IN  Reverse(data)

\* what get_pricepoints answers an authenticated caller on a store
PricepointsResponse(items, points, user_email, trackitem_id) ==
    IF NotFound(items, trackitem_id, user_email)
    THEN [Response("get_pricepoints", user_email, "", 404, "Track item not found", <<>>)
             EXCEPT !.id = trackitem_id]
    ELSE [Response("get_pricepoints", user_email, "", 200, "", PointsOf(points, trackitem_id))
             EXCEPT !.id = trackitem_id]

get_pricepoints(authorization, trackitem_id) ==
    /\ IF Unauthenticated(authorization)
       THEN resp' = [Response("get_pricepoints", <<>>, "", 401, AuthError(authorization), <<>>)
                        EXCEPT !.id = trackitem_id]
       ELSE resp' = PricepointsResponse(trackitem, pricepoint, get_current_user(authorization),
                                        trackitem_id)
    /\ UNCHANGED <<user, trackitem, pricepoint, issued, reqs, hashmod, now, job, cyc, outbox, peak>>

-----------------------------------------------------------------------------
(* Telegram: src/main.py 185-200 *)

\* update_one({"email": email}, {"$set": ...}, upsert=True): the first match is
\* updated; with no match a document of the filter and the set fields is inserted
UpsertTelegram(users, email, cfg) ==
    LET idx == {i \in 1..Len(users) : users[i].email = email}
        first == CHOOSE i \in idx : \A j \in idx : i <= j
    IN  IF idx = {}
        THEN Append(users, [User(email, NoHash, None) EXCEPT !.telegram_token = cfg.token,
                                                              !.telegram_chat_id = cfg.chat_id])
        ELSE [users EXCEPT ![first] = [@ EXCEPT !.telegram_token = cfg.token,
                                                !.telegram_chat_id = cfg.chat_id]]

save_telegram(authorization, cfg) ==
    /\ IF Unauthenticated(authorization)
       THEN /\ resp' = Response("save_telegram", <<>>, "", 401, AuthError(authorization), <<>>)
            /\ user' = user
       ELSE /\ user' = UpsertTelegram(user, get_current_user(authorization), cfg)
            /\ resp' = Response("save_telegram", get_current_user(authorization), "", 200, "ok", <<>>)
    /\ UNCHANGED <<trackitem, pricepoint, issued, reqs, hashmod, now, job, cyc, outbox, peak>>

\* the sendMessage call of test_telegram, with the text "Price Tracker connected!"
TestMessage(cfg) == [chat_id |-> cfg.chat_id, item |-> 0, price |-> 0, target |-> 0]

\* test_telegram: the call is made with the credentials of the body; the answer
\* is 200 with ok true or false as Telegram says, or 400 when requests.post or
\* the reading of its JSON raises
test_telegram(authorization, cfg) ==
    /\ IF Unauthenticated(authorization)
       THEN /\ resp' = Response("test_telegram", <<>>, "", 401, AuthError(authorization), <<>>)
            /\ outbox' = outbox
       ELSE /\ outbox' = Append(outbox, TestMessage(cfg))
            /\ \E outcome \in {<<200, "ok">>, <<200, "not ok">>, <<400, "error">>} :
                  resp' = Response("test_telegram", get_current_user(authorization), "",
                                   outcome[1], outcome[2], <<>>)
    /\ UNCHANGED <<user, trackitem, pricepoint, issued, reqs, hashmod, now, job, cyc, peak>>

-----------------------------------------------------------------------------
(* Background job: src/main.py 212-243 *)

\* the mocked price: "4000.0 if hash(it['url']) % 3 == 0 else target_price + 500"
ObservedPrice(it) == IF hashmod[it.url] = 0 THEN 4000 ELSE it.target_price + 500

\* "if current_price <= it.get('target_price', 0)"
IsDeal(price, it) == price <= it.target_price

\* a job that never takes an item out of "deal"
NewStatusSticky(price, it) ==
    IF IsDeal(price, it) \/ it.status = "deal" THEN "deal" ELSE "tracking"

\* the status each branch of the job writes
NewStatus(price, it) == IF IsDeal(price, it) THEN "deal" ELSE "tracking"

\* an update_one that moves target_price as well
UpdateItemAndTarget(items, id, status, price) ==
    [i \in 1..Len(items) |->
        IF items[i]._id = id
        THEN [items[i] EXCEPT !.status = status, !.current_price = price, !.target_price = price + 500]
        ELSE items[i]]

\* update_one({"_id": id}, {"$set": {"status": ..., "current_price": ...}})
UpdateItem(items, id, status, price) ==
    [i \in 1..Len(items) |->
        IF items[i]._id = id THEN [items[i] EXCEPT !.status = status, !.current_price = price]
        ELSE items[i]]

Ids(items) == {items[i]._id : i \in 1..Len(items)}

\* the scheduler fires: the job reads db["trackitem"].find({})
\* a scheduler that starts a run at every firing of the timer
JobStartAnyTime ==
    /\ job' = IF trackitem = <<>> THEN IdleJob
              ELSE [IdleJob EXCEPT !.pc = "observe", !.items = trackitem, !.i = 1]
    /\ cyc' = [NoCycle EXCEPT !.n = cyc.n + 1, !.loaded = trackitem, !.outbox0 = Len(outbox),
                              !.points = cyc.points, !.updates = cyc.updates]
    /\ UNCHANGED <<user, trackitem, pricepoint, issued, reqs, resp, hashmod, now, outbox, peak>>

\* the timer fires with no run in progress: add_job(check_prices_job,
\* 'interval', minutes=30) runs the job, which loads the items
JobStart ==
    /\ job.pc = "idle"
    /\ job' = IF trackitem = <<>> THEN IdleJob
              ELSE [IdleJob EXCEPT !.pc = "observe", !.items = trackitem, !.i = 1]
    /\ cyc' = [NoCycle EXCEPT !.n = cyc.n + 1, !.loaded = trackitem, !.outbox0 = Len(outbox),
                              !.points = cyc.points, !.updates = cyc.updates]
    /\ UNCHANGED <<user, trackitem, pricepoint, issued, reqs, resp, hashmod, now, outbox, peak>>

\* the timer fires while a run is in progress: add_job is called without
\* max_instances, which the scheduler takes as 1, so the firing is passed over
MissedRun ==
    /\ job.pc # "idle"
    /\ cyc' = [cyc EXCEPT !.missed = TRUE]
    /\ UNCHANGED <<user, trackitem, pricepoint, issued, reqs, resp, hashmod, now, job, outbox, peak>>

\* the item the job is at
It == job.items[job.i]

\* a job that saves the PricePoint of an item twice
JobObserveTwice ==
    /\ job.pc = "observe"
    /\ LET price == ObservedPrice(It)
           pp == PricePoint(It._id, price, now)
       IN  /\ \/ /\ pricepoint' = create_document(create_document(pricepoint, pp), pp)
                 /\ cyc' = [cyc EXCEPT !.pointed = @ \cup {It._id},
                                        !.points = @ \cup {<<cyc.n, It._id>>}]
              \/ /\ pricepoint' = pricepoint
                 /\ cyc' = [cyc EXCEPT !.failed = @ \cup {<<It._id, "pricepoint">>}]
           /\ job' = [job EXCEPT !.price = price,
                                 !.pc = IF IsDeal(price, It) THEN "lookup" ELSE "update"]
    /\ UNCHANGED <<user, trackitem, issued, reqs, resp, hashmod, now, outbox, peak>>

\* lines 218-224: the price is computed and its PricePoint saved; an exception
\* of create_document is passed over
JobObserve ==
    /\ job.pc = "observe"
    /\ LET price == ObservedPrice(It)
       IN  /\ \/ /\ pricepoint' = create_document(pricepoint, PricePoint(It._id, price, now))
                 /\ cyc' = [cyc EXCEPT !.pointed = @ \cup {It._id},
                                        !.points = @ \cup {<<cyc.n, It._id>>}]
              \/ /\ pricepoint' = pricepoint
                 /\ cyc' = [cyc EXCEPT !.failed = @ \cup {<<It._id, "pricepoint">>}]
           /\ job' = [job EXCEPT !.price = price,
                                 !.pc = IF IsDeal(price, It) THEN "lookup" ELSE "update"]
    /\ UNCHANGED <<user, trackitem, issued, reqs, resp, hashmod, now, outbox, peak>>

\* an exception leaves check_prices_job: the cycle is over
Raise(place) ==
    /\ job' = IdleJob
    /\ cyc' = [cyc EXCEPT !.failed = @ \cup {<<It._id, place>>}]

\* lines 227-229: the owner's document and its credentials; find_one may raise
JobLookup ==
    /\ job.pc = "lookup"
    /\ \/ LET docs == UsersWith(It.user_email)
          IN  /\ job' = [job EXCEPT !.pc = "notify",
                             !.token = IF docs = <<>> THEN None ELSE docs[1].telegram_token,
                             !.chat_id = IF docs = <<>> THEN None ELSE docs[1].telegram_chat_id]
              /\ cyc' = cyc
       \/ Raise("lookup")
    /\ UNCHANGED <<user, trackitem, pricepoint, issued, reqs, resp, hashmod, now, outbox, peak>>

Message(it, price) ==
    [chat_id |-> job.chat_id, item |-> it._id, price |-> price,
     target |-> it.target_price]

\* "if token and chat_id"
HasCredential == Truthy(job.token) /\ Truthy(job.chat_id)

\* a job whose requests.post stands outside any try: its exception leaves the job
JobNotifyUncaught ==
    /\ job.pc = "notify"
    /\ \/ /\ HasCredential
          /\ outbox' = Append(outbox, Message(It, job.price))
          /\ \/ /\ cyc' = [cyc EXCEPT !.notify = @ \cup {<<It._id, job.price, "sent">>}]
                /\ job' = [job EXCEPT !.pc = "update"]
             \/ /\ cyc' = [cyc EXCEPT !.notify = @ \cup {<<It._id, job.price, "failed">>},
                                      !.failed = @ \cup {<<It._id, "notify">>}]
                /\ job' = IdleJob
       \/ /\ ~HasCredential
          /\ outbox' = outbox
          /\ cyc' = [cyc EXCEPT !.notify = @ \cup {<<It._id, job.price, "nocredential">>}]
          /\ job' = [job EXCEPT !.pc = "update"]
    /\ UNCHANGED <<user, trackitem, pricepoint, issued, reqs, resp, hashmod, now, peak>>

\* lines 230-236: with credentials the message is posted; an exception of
\* requests.post (a timeout, a transport error) is passed over
JobNotify ==
    /\ job.pc = "notify"
    /\ \/ /\ HasCredential
          /\ outbox' = Append(outbox, Message(It, job.price))
          /\ \/ cyc' = [cyc EXCEPT !.notify = @ \cup {<<It._id, job.price, "sent">>}]
             \/ cyc' = [cyc EXCEPT !.notify = @ \cup {<<It._id, job.price, "failed">>},
                                   !.failed = @ \cup {<<It._id, "notify">>}]
       \/ /\ ~HasCredential
          /\ outbox' = outbox
          /\ cyc' = [cyc EXCEPT !.notify = @ \cup {<<It._id, job.price, "nocredential">>}]
    /\ job' = [job EXCEPT !.pc = "update"]
    /\ UNCHANGED <<user, trackitem, pricepoint, issued, reqs, resp, hashmod, now, peak>>

\* the job goes on to the next item of its cursor, or returns
Advance == IF job.i < Len(job.items)
           THEN [IdleJob EXCEPT !.pc = "observe", !.items = job.items, !.i = job.i + 1]
           ELSE IdleJob

\* lines 237 and 239: status and current_price are written; update_one may raise
JobUpdate ==
    /\ job.pc = "update"
    /\ \/ /\ trackitem' = UpdateItem(trackitem, It._id, NewStatus(job.price, It), job.price)
          /\ cyc' = [cyc EXCEPT !.updated = @ \cup {It._id},
                                 !.updates = @ \cup {<<cyc.n, It._id>>}]
          /\ job' = Advance
       \/ /\ Raise("update")
          /\ trackitem' = trackitem
    /\ UNCHANGED <<user, pricepoint, issued, reqs, resp, hashmod, now, outbox, peak>>

\* the process is started again on the same database: requests and the job in
\* progress are gone, and str hashes are salted anew
Restart ==
    /\ hashmod' \in [Urls -> 0..2]
    /\ hashmod' # hashmod
    /\ job' = IdleJob
    /\ reqs' = EmptyBag
    /\ cyc' = [NoCycle EXCEPT !.n = cyc.n, !.points = cyc.points, !.updates = cyc.updates]
    /\ UNCHANGED <<user, trackitem, pricepoint, issued, resp, now, outbox, peak>>

\* time passes
Tick ==
    /\ now' = now + 1
    /\ UNCHANGED <<user, trackitem, pricepoint, issued, reqs, resp, hashmod, job, cyc, outbox, peak>>

-----------------------------------------------------------------------------
(* The program: every handler and the job *)

\* the tokens a client sends: an email address, a string without "@" and the
\* string "@x", which has an "@" and is no email address
GoogleTokens == Emails \cup {<<"noat">>, <<"", "x">>}
ItemIds == (-MaxItems)..(MaxItems + 1)

Next ==
    \/ \E e \in Emails, p \in Passwords, n \in Names :
          BagCardinality(reqs) < MaxInFlight /\ RegisterFind(e, p, n)
    \/ \E r \in BagToSet(reqs) : RegisterInsert(r)
    \/ \E e \in Emails, p \in Passwords : login(e, p)
    \/ \E t \in GoogleTokens : BagCardinality(reqs) < MaxInFlight /\ GoogleFind(t)
    \/ \E r \in BagToSet(reqs) : GoogleFinish(r)
    \/ \E a \in Authorizations, u \in Urls, t \in Targets :
          /\ BagCardinality(reqs) < MaxInFlight
          /\ Len(trackitem) + BagCardinality(reqs) < MaxItems
          /\ CreateTrackCount(a, u, t)
    \/ \E r \in BagToSet(reqs) : CreateTrackInsert(r)
    \/ \E a \in Authorizations : list_tracks(a)
    \/ \E a \in Authorizations, id \in ItemIds : get_pricepoints(a, id)
    \/ \E a \in Authorizations, cfg \in TelegramConfigs : save_telegram(a, cfg)
    \/ \E a \in Authorizations, cfg \in TelegramConfigs :
          Len(outbox) < MaxCalls /\ test_telegram(a, cfg)
    \/ cyc.n < MaxCycles /\ JobStart
    \/ JobObserve
    \/ JobLookup
    \/ JobNotify
    \/ JobUpdate
    \/ MissedRun
    \/ job.pc = "idle" /\ reqs = EmptyBag /\ Restart
    \/ job.pc = "observe" /\ now < MaxClock /\ Tick

Spec == Init /\ [][Next]_vars

-----------------------------------------------------------------------------
(* The scheduler with the requests that feed it, served one at a time *)

\* the header of a client that holds the token issued for email
Bearer(email) == <<[scheme |-> "Bearer"], create_token(email)>>

NextCheck ==
    \/ \E e \in {<<"a", "x">>} : reqs = EmptyBag /\ GoogleFind(e)
    \/ \E r \in BagToSet(reqs) : GoogleFinish(r)
    \/ \E e \in issued, u \in Urls, t \in Targets :
          /\ reqs = EmptyBag
          /\ Len(trackitem) < MaxItems
          /\ CreateTrackCount(Bearer(e), u, t)
    \/ \E r \in BagToSet(reqs) : CreateTrackInsert(r)
    \/ \E e \in issued, cfg \in TelegramConfigs : save_telegram(Bearer(e), cfg)
    \/ cyc.n < MaxCycles /\ JobStart
    \/ JobObserve
    \/ JobLookup
    \/ JobNotify
    \/ JobUpdate
    \/ job.pc = "idle" /\ reqs = EmptyBag /\ Restart

SpecCheck == Init /\ [][NextCheck]_vars

-----------------------------------------------------------------------------
(* Properties of the check cycle, under SpecCheck *)

\* the document of the collection with this id
ItemOf(id) == SelectSeq(trackitem, LAMBDA t : t._id = id)[1]

\* the sendMessage calls of the running (or last) cycle
CycleCalls == SubSeq(outbox, cyc.outbox0 + 1, Len(outbox))

\* C1: in a cycle the job calls the Notifier for an item if and only if the
\* observed price is <= target_price and the item's status before the cycle was
\* not "deal" (the owner having credentials): an item that stays in "deal" is
\* notified in the first of the cycles only.
C1_NotifiedOnTransitionOnly ==
    [][ /\ (job.pc = "observe" /\ job' # job /\ ~IsDeal(job'.price, It)) => outbox' = outbox
        /\ (job.pc = "notify" /\ job' # job) =>
              ((Len(outbox') > Len(outbox)) <=> (HasCredential /\ It.status # "deal")) ]_vars

\* C2: every item checked at least once has status "deal" if and only if its
\* current_price <= target_price, and "tracking" otherwise; an item never
\* checked has status "tracking" and no current_price.
C2_StatusFollowsPrice ==
    \A i \in 1..Len(trackitem) :
        LET t == trackitem[i]
        IN  IF t.current_price = NoPrice
            THEN t.status = "tracking"
            ELSE /\ t.status \in {"deal", "tracking"}
                 /\ t.status = "deal" <=> t.current_price <= t.target_price

\* an item that was in "deal" when the cycle loaded it has been updated by the
\* cycle with a price above its target, and is back in "tracking"
C2_Witness ==
    \E i \in 1..Len(cyc.loaded) :
        /\ cyc.loaded[i].status = "deal"
        /\ cyc.loaded[i]._id \in cyc.updated
        /\ trackitem[i].status = "tracking"
        /\ trackitem[i].current_price > trackitem[i].target_price

\* C6: when an exception happens while the job processes one item, every other
\* item the cycle loaded still gets its PricePoint and its status and
\* current_price written before the job returns.
C6_OtherItemsProcessed ==
    (job.pc = "idle" /\ cyc.n > 0) =>
        \A i \in 1..Len(cyc.loaded) :
            LET id == cyc.loaded[i]._id
            IN  (\A f \in cyc.failed : f[1] # id) => (id \in cyc.pointed /\ id \in cyc.updated)

\* C7: for an item whose observed price is <= target_price the PricePoint is
\* kept and status "deal" and current_price = observed price are written
\* whatever the notification did: without credentials no Notifier call is made
\* and nothing fails, and after a failed call the job still goes on to the update.
C7_WritesKeptWhateverNotification ==
    \A o \in cyc.notify :
        LET id == o[1]
            price == o[2]
            outcome == o[3]
        IN  /\ price <= ItemOf(id).target_price
            /\ outcome = "nocredential" =>
                  /\ \A k \in 1..Len(CycleCalls) : CycleCalls[k].item # id
                  /\ <<id, "notify">> \notin cyc.failed
            /\ <<id, "pricepoint">> \notin cyc.failed =>
                  \E k \in 1..Len(pricepoint) :
                      pricepoint[k].trackitem_id = id /\ pricepoint[k].price = price
            /\ id \in cyc.updated =>
                  ItemOf(id).status = "deal" /\ ItemOf(id).current_price = price
            /\ (id \notin cyc.updated /\ <<id, "update">> \notin cyc.failed) =>
                  (job.pc = "update" /\ It._id = id)

\* the Notifier call of a deal failed, and the item's update was written
C7_Witness ==
    \E o \in cyc.notify :
        /\ o[3] = "failed"
        /\ o[1] \in cyc.updated
        /\ ItemOf(o[1]).status = "deal"

-----------------------------------------------------------------------------
(* The quota of create_track: owners sign in and create items, with up to
   MaxInFlight create_track requests between their count and their insert *)

NextQuota ==
    \/ \E e \in Emails : reqs = EmptyBag /\ GoogleFind(e)
    \/ \E r \in BagToSet(reqs) : GoogleFinish(r)
    \/ \E a \in Authorizations, u \in Urls :
          /\ \A r \in BagToSet(reqs) : r.op = "create_track"
          /\ BagCardinality(reqs) < MaxInFlight
          /\ CreateTrackCount(a, u, 4000)
    \/ \E r \in BagToSet(reqs) : CreateTrackInsert(r)

\* no cycle runs here: the process's hash salt is left at one value
InitQuota == Init /\ hashmod = [u \in Urls |-> 0]

SpecQuota == InitQuota /\ [][NextQuota]_vars

\* the number of documents of the collection whose user_email is the owner
Owned(email) == Cardinality({i \in 1..Len(trackitem) : trackitem[i].user_email = email})

\* C3: when the create_track requests of an owner never overlap, the owner has
\* at most 5 items in every state: a request goes on to its insert only if the
\* owner had fewer than 5 items when it counted, and a request refused with 403
\* found 5 or more.
C3_SequentialQuota ==
    \A e \in Emails :
        /\ peak[e] <= 1 => Owned(e) <= FreeTierLimit
        /\ \A r \in BagToSet(reqs) :
              (r.op = "create_track" /\ r.email = e) => r.count < FreeTierLimit
        /\ (resp.op = "create_track" /\ resp.code = 403 /\ resp.email = e) =>
              Owned(e) >= FreeTierLimit

\* an owner whose requests never overlapped holds 5 items and was refused the sixth
C3_Witness ==
    \E e \in Emails :
        /\ peak[e] = 1
        /\ Owned(e) = FreeTierLimit
        /\ resp.op = "create_track" /\ resp.code = 403 /\ resp.email = e

\* C4: with up to k create_track requests of an owner in flight at once, the
\* owner never has more than 5 + (k - 1) items; the bound of an owner rests on
\* that owner's requests alone, so an owner whose requests never overlap stays
\* at 5 whatever the others do.
C4_RaceBound ==
    \A e \in Emails : Owned(e) <= FreeTierLimit + (Max(peak[e], 1) - 1)

\* two requests of an owner overlapped and the owner holds 6 items, while the
\* other owner, whose requests never overlapped, holds 5
C4_Witness ==
    \E e \in Emails, o \in Emails :
        /\ o # e
        /\ peak[e] = 2 /\ Owned(e) = FreeTierLimit + 1
        /\ peak[o] = 1 /\ Owned(o) = FreeTierLimit

-----------------------------------------------------------------------------
(* Accounts: register, login, external auth and save_telegram, with up to
   MaxInFlight requests between their lookup and their insert *)

NextAuth ==
    \/ \E e \in Emails, p \in Passwords :
          BagCardinality(reqs) < MaxInFlight /\ RegisterFind(e, p, None)
    \/ \E r \in BagToSet(reqs) : RegisterInsert(r)
    \/ \E e \in Emails, p \in Passwords : login(e, p)
    \/ \E t \in GoogleTokens : BagCardinality(reqs) < MaxInFlight /\ GoogleFind(t)
    \/ \E r \in BagToSet(reqs) : GoogleFinish(r)
    \/ \E a \in Authorizations : save_telegram(a, [token |-> "tok", chat_id |-> "chat"])

SpecAuth == InitQuota /\ [][NextAuth]_vars

\* the steps in which login and register answer: every other action that
\* changes resp, user or issued leaves another op in resp
LoginAnswered == resp'.op = "login" /\ (resp' # resp \/ issued' # issued)
RegisterRefused == resp'.op = "register" /\ resp'.code = 400 /\ resp' # resp
RegisterStored == resp'.op = "register" /\ resp'.code = 200 /\ (resp' # resp \/ user' # user)

\* C8: login fails with 401 "Invalid credentials", the same response, when no
\* user has the email, when the user has no password hash and when the password
\* does not verify; a failed login changes no stored state and issues no
\* token; login succeeds only for a user whose hash verifies the password.
C8_LoginFailsAlike ==
    [][ LoginAnswered =>
          LET docs == UsersWith(resp'.email)
              good == /\ docs # <<>>
                      /\ docs[1].password_hash = hash_password(resp'.arg)
          IN  /\ good => (resp'.code = 200 /\ resp'.email \in issued')
              /\ ~good => /\ resp' = Response("login", resp'.email, resp'.arg, 401,
                                              "Invalid credentials", <<>>)
                          /\ UNCHANGED <<user, issued, trackitem, pricepoint, reqs>> ]_vars

\* each of the three ways to fail has been answered with the 401: here a login
\* to an account that external auth created, which has no password hash
C8_Witness ==
    /\ resp.op = "login" /\ resp.code = 401
    /\ UsersWith(resp.email) # <<>>
    /\ UsersWith(resp.email)[1].password_hash = NoHash

\* C9: register answers 400 whenever its lookup finds a document with the
\* email, whoever created it, and then changes nothing and issues no token; a
\* register that succeeds stores exactly one new user, with that email and a
\* password hash.
C9_RegisterDuplicate ==
    [][ /\ RegisterRefused =>
              /\ UsersWith(resp'.email) # <<>>
              /\ UNCHANGED <<user, issued, trackitem, pricepoint, reqs>>
        /\ RegisterStored =>
              /\ Len(user') = Len(user) + 1
              /\ SubSeq(user', 1, Len(user)) = user
              /\ user'[Len(user')].email = resp'.email
              /\ user'[Len(user')].password_hash = hash_password(resp'.arg)
              /\ resp'.email \in issued'
        /\ \A r \in BagToSet(reqs') :
              (r.op = "register" /\ CopiesIn(r, reqs') > CopiesIn(r, reqs)) =>
                  UsersWith(r.email) = <<>> ]_vars

\* register was refused for an email whose document external auth had created
C9_Witness ==
    /\ resp.op = "register" /\ resp.code = 400
    /\ UsersWith(resp.email) # <<>>
    /\ \A i \in 1..Len(UsersWith(resp.email)) : UsersWith(resp.email)[i].password_hash = NoHash

-----------------------------------------------------------------------------
(* Reading price points: get_pricepoints writes nothing, so it is applied to
   the stores that two signed-in users, their create_track calls and the job's
   cycles leave behind.  An item is as created or as a cycle with the price 4000
   left it; a PricePoint belongs to an item of the store. *)

ItemStates == {[status |-> "tracking", current_price |-> NoPrice],
               [status |-> "deal", current_price |-> 4000]}

Stores ==
    UNION {[1..n -> [user_email : Emails, st : ItemStates]] : n \in 0..MaxItems}

PointStores(n) ==
    UNION {[1..k -> [trackitem_id : 1..n, price : {4000, 4500}]] : k \in 0..MaxItems}

InitOwn ==
    /\ user = <<User(<<"a","x">>, NoHash, "a"), User(<<"b","x">>, NoHash, "b")>>
    /\ issued = Emails
    /\ \E s \in Stores :
          /\ trackitem = [i \in 1..Len(s) |->
                             [TrackItem(i, s[i].user_email, "u1", 4000)
                                 EXCEPT !.status = s[i].st.status,
                                        !.current_price = s[i].st.current_price]]
          /\ \E ps \in PointStores(Len(s)) :
                pricepoint = [i \in 1..Len(ps) |-> PricePoint(ps[i].trackitem_id, ps[i].price, 0)]
    /\ reqs = EmptyBag
    /\ resp = Response("none", <<>>, "", 0, "", <<>>)
    /\ hashmod = [u \in Urls |-> 0]
    /\ now = 0
    /\ job = IdleJob
    /\ cyc = NoCycle
    /\ outbox = <<>>
    /\ peak = [e \in Emails |-> 0]

NextOwn == \E a \in Authorizations, id \in ItemIds : get_pricepoints(a, id)

SpecOwn == InitOwn /\ [][NextOwn]_vars

IdsOf(email) == {trackitem[i]._id : i \in {j \in 1..Len(trackitem) : trackitem[j].user_email = email}}

\* C5: an authenticated caller of get_pricepoints gets 404 "Track item not
\* found", the same response, for an id that does not parse, an id of no item
\* and an id of another user's item; for an item of their own they get that
\* item's price points and no others; and the response is the one the caller's
\* own items and their price points alone determine.
C5_OwnershipIsolation ==
    (resp.op = "get_pricepoints" /\ resp.code # 401) =>
        LET A == resp.email
            OwnItems == SelectSeq(trackitem, LAMBDA t : t.user_email = A)
            OwnPoints == SelectSeq(pricepoint, LAMBDA p : p.trackitem_id \in IdsOf(A))
            asked == SelectSeq(pricepoint, LAMBDA p : p.trackitem_id = resp.id)
        IN  /\ ObjectIdOf(resp.id) \notin IdsOf(A) =>
                  resp = [Response("get_pricepoints", A, "", 404, "Track item not found", <<>>)
                             EXCEPT !.id = resp.id]
            /\ resp.id \in IdsOf(A) =>
                  /\ resp.code = 200
                  /\ Len(resp.items) = Len(asked)
                  /\ \A i \in 1..Len(asked) : resp.items[i].price = asked[i].price
            /\ resp = PricepointsResponse(OwnItems, OwnPoints, A, resp.id)

\* the caller asked for an item of the other user, which has price points
C5_Witness ==
    /\ resp.op = "get_pricepoints" /\ resp.code = 404
    /\ \E i \in 1..Len(trackitem) :
          /\ trackitem[i]._id = resp.id
          /\ trackitem[i].user_email # resp.email
          /\ \E j \in 1..Len(pricepoint) : pricepoint[j].trackitem_id = resp.id

-----------------------------------------------------------------------------
(* Accounts and items: the three ways to a token, and create_track with every
   header a client may send *)

NextBind ==
    \/ \E e \in Emails, p \in Passwords :
          BagCardinality(reqs) < MaxInFlight /\ RegisterFind(e, p, None)
    \/ \E r \in BagToSet(reqs) : RegisterInsert(r)
    \/ \E e \in Emails, p \in Passwords : login(e, p)
    \/ \E t \in GoogleTokens : BagCardinality(reqs) < MaxInFlight /\ GoogleFind(t)
    \/ \E r \in BagToSet(reqs) : GoogleFinish(r)
    \/ \E a \in Authorizations, u \in Urls :
          /\ BagCardinality(reqs) < MaxInFlight
          /\ Len(trackitem) + BagCardinality(reqs) < MaxItems
          /\ CreateTrackCount(a, u, 4000)
    \/ \E r \in BagToSet(reqs) : CreateTrackInsert(r)

SpecBind == InitQuota /\ [][NextBind]_vars

\* C11: the user_email of every tracking item is the email of a user document;
\* a token is in circulation only for an email that has one, and so is every
\* create_track request between its count and its insert.
C11_OwnerExists ==
    /\ \A i \in 1..Len(trackitem) : UsersWith(trackitem[i].user_email) # <<>>
    /\ \A e \in issued : UsersWith(e) # <<>>
    /\ \A r \in BagToSet(reqs) : r.op = "create_track" => UsersWith(r.email) # <<>>

\* an item was created for a registered user while another email, for which a
\* client can forge a token, has no user document
C11_Witness ==
    /\ Len(trackitem) > 0
    /\ \E e \in Emails : UsersWith(e) = <<>>
    /\ resp.op = "create_track" /\ resp.code = 200
    /\ UsersWith(resp.email)[1].password_hash # NoHash

-----------------------------------------------------------------------------
(* Creating and listing items: two users, create_track with either target and
   list_tracks *)

NextList ==
    \/ \E e \in Emails : reqs = EmptyBag /\ GoogleFind(e)
    \/ \E r \in BagToSet(reqs) : GoogleFinish(r)
    \/ \E a \in Authorizations, u \in Urls, t \in Targets :
          /\ BagCardinality(reqs) < MaxInFlight
          /\ Len(trackitem) + BagCardinality(reqs) < MaxItems
          /\ CreateTrackCount(a, u, t)
    \/ \E r \in BagToSet(reqs) : CreateTrackInsert(r)
    \/ \E a \in Authorizations : list_tracks(a)

SpecList == InitQuota /\ [][NextList]_vars

\* the positions of the owner's documents in a collection, and the k-th of them
PositionsOf(items, email) == {i \in 1..Len(items) : items[i].user_email = email}
Nth(S, k) == CHOOSE i \in S : Cardinality({j \in S : j < i}) = k - 1

\* C12: list_tracks answers with the caller's items and no others, at most
\* 100, each with the url, target_price and status it is stored with; and the
\* insert of create_track(url, target_price) for an owner without items leaves
\* a store in which that owner's items are exactly one, with that url, that
\* target_price and status 'tracking'.
C12_CreateThenList ==
    [][ /\ (resp'.op = "list_tracks" /\ resp'.code = 200 /\ resp' # resp) =>
              LET e == resp'.email
                  P == PositionsOf(trackitem, e)
              IN  /\ Len(resp'.items) = Min(Cardinality(P), ListLimit)
                  /\ \A k \in 1..Len(resp'.items) :
                        LET t == trackitem[Nth(P, k)]
                            d == resp'.items[k]
                        IN  /\ d.user_email = e
                            /\ d.id = t._id /\ d.url = t.url
                            /\ d.target_price = t.target_price /\ d.status = t.status
        /\ \A r \in BagToSet(reqs) :
              (r.op = "create_track" /\ reqs' = reqs (-) SetToBag({r})
                 /\ PositionsOf(trackitem, r.email) = {}) =>
                  LET P == PositionsOf(trackitem', r.email)
                  IN  /\ Cardinality(P) = 1
                      /\ \A i \in P : /\ trackitem'[i].url = r.url
                                      /\ trackitem'[i].target_price = r.target
                                      /\ trackitem'[i].status = "tracking"
                      /\ \A o \in Emails \ {r.email} :
                            PositionsOf(trackitem', o) = PositionsOf(trackitem, o) ]_vars

\* an owner created their first item with target 3000 while the other user
\* had one, and the list they got holds that one item
C12_Witness ==
    /\ resp.op = "list_tracks" /\ resp.code = 200
    /\ Len(trackitem) = 2
    /\ Len(resp.items) = 1
    /\ resp.items[1].target_price = 3000 /\ resp.items[1].status = "tracking"
    /\ resp.items[1].id = 2

-----------------------------------------------------------------------------
(* The five handlers behind get_current_user, called with every header a
   client may send, by users who signed in through external auth *)

OneConfig == [token |-> "tok", chat_id |-> "chat"]

NextApi ==
    \/ \E e \in Emails : reqs = EmptyBag /\ GoogleFind(e)
    \/ \E r \in BagToSet(reqs) : GoogleFinish(r)
    \/ \E a \in Authorizations, u \in Urls :
          /\ reqs = EmptyBag
          /\ Len(trackitem) < MaxItems
          /\ CreateTrackCount(a, u, 4000)
    \/ \E r \in BagToSet(reqs) : CreateTrackInsert(r)
    \/ \E a \in Authorizations : list_tracks(a)
    \/ \E a \in Authorizations, id \in ItemIds : get_pricepoints(a, id)
    \/ \E a \in Authorizations : save_telegram(a, OneConfig)
    \/ \E a \in Authorizations : Len(outbox) < MaxCalls /\ test_telegram(a, OneConfig)

SpecApi == InitQuota /\ [][NextApi]_vars

\* a step of one of the five handlers called with the header
HandlerStep(a) ==
    \/ \E u \in Urls, t \in Targets : CreateTrackCount(a, u, t)
    \/ list_tracks(a)
    \/ \E id \in ItemIds : get_pricepoints(a, id)
    \/ \E cfg \in TelegramConfigs : save_telegram(a, cfg)
    \/ \E cfg \in TelegramConfigs : test_telegram(a, cfg)

\* C13: a call of create_track, list_tracks, get_pricepoints, save_telegram or
\* test_telegram with no header, with a scheme other than Bearer or with a
\* token the server did not sign is answered 401, stores nothing, starts no
\* request and sends nothing; a call with a token issued for an email is
\* answered for that email, a request it starts carries that email, and the
\* only user document it may change is the one of that email.
C13_AuthRequired ==
    [][ \A a \in Authorizations :
          LET bad == \/ a = <<>>
                     \/ a # <<>> /\ a[1].scheme # "Bearer"
                     \/ a # <<>> /\ a[2] \notin {create_token(e) : e \in issued}
          IN  HandlerStep(a) =>
                 IF bad
                 THEN /\ resp'.code = 401 /\ resp'.email = <<>>
                      /\ UNCHANGED <<user, trackitem, pricepoint, issued, reqs, outbox>>
                 ELSE /\ resp' # resp => (resp'.code # 401 /\ resp'.email = a[2].sub)
                      /\ \A r \in BagToSet(reqs') :
                            CopiesIn(r, reqs') > CopiesIn(r, reqs) => r.email = a[2].sub
                      /\ Len(user') = Len(user)
                      /\ \A i \in 1..Len(user) :
                            user'[i] # user[i] => user[i].email = a[2].sub
                      /\ UNCHANGED <<trackitem, pricepoint, issued>> ]_vars

\* save_telegram was refused for a token signed with another key, when users
\* had signed in, one had saved credentials and an item was stored
C13_Witness ==
    /\ resp.op = "save_telegram" /\ resp.code = 401 /\ resp.detail = "Invalid token"
    /\ issued = Emails
    /\ Len(trackitem) > 0
    /\ \E i \in 1..Len(user) : user[i].telegram_token = "tok"
    /\ \E i \in 1..Len(user) : user[i].telegram_token = None

-----------------------------------------------------------------------------
(* External auth, under SpecAuth *)

\* C14, as stated: external auth never fails.
C14_NeverFails == resp.op = "google" => resp.code = 200

\* C14, as the code has it: external auth fails, with no effect, for a token
\* that is no email address (400 without "@", 500 with one); for an email
\* address whose lookup finds no user it stores exactly one user (no password
\* hash, name = the part before "@"), for one whose lookup finds a user it
\* stores none, and in both cases it answers 200 with a session for that email.
C14_ProvisionsEmails ==
    [][ /\ \A t \in GoogleTokens :
              GoogleFind(t) =>
                 IF Len(t) < 2
                 THEN /\ resp'.op = "google" /\ resp'.code = 400
                      /\ UNCHANGED <<user, issued, reqs, trackitem, pricepoint>>
                 ELSE /\ \E r \in BagToSet(reqs') :
                            /\ reqs' = reqs (+) SetToBag({r})
                            /\ r.op = "google" /\ r.email = t
                            /\ r.count = 0 <=> (\A i \in 1..Len(user) : user[i].email # t)
                      /\ UNCHANGED <<user, issued, resp>>
        /\ \A r \in BagToSet(reqs) :
              (r.op = "google" /\ reqs' = reqs (-) SetToBag({r})) =>
                  IF r.email \in Emails
                  THEN /\ resp'.op = "google" /\ resp'.code = 200 /\ resp'.email = r.email
                       /\ r.email \in issued'
                       /\ IF r.count = 0
                          THEN /\ Len(user') = Len(user) + 1
                               /\ SubSeq(user', 1, Len(user)) = user
                               /\ user'[Len(user')].email = r.email
                               /\ user'[Len(user')].password_hash = NoHash
                               /\ user'[Len(user')].name = r.email[1]
                          ELSE user' = user
                  ELSE /\ resp'.op = "google" /\ resp'.code = 500
                       /\ UNCHANGED <<user, issued, trackitem, pricepoint>> ]_vars

\* external auth answered 200 for an email whose user had registered with a
\* password and stored no second user for it, after it had provisioned the
\* other email's user
C14_Witness ==
    /\ resp.op = "google" /\ resp.code = 200
    /\ Len(UsersWith(resp.email)) = 1
    /\ UsersWith(resp.email)[1].password_hash # NoHash
    /\ \E i \in 1..Len(user) : /\ user[i].email # resp.email
                               /\ user[i].password_hash = NoHash
                               /\ user[i].name = user[i].email[1]

-----------------------------------------------------------------------------
(* Price history, under SpecCheck *)

PointsFor(id) == SelectSeq(pricepoint, LAMBDA p : p.trackitem_id = id)
CyclesIn(history, id) == {h[1] : h \in {g \in history : g[2] = id}}

\* C15, as stated: between cycles an item has as many PricePoints as cycles
\* updated it, and its current_price is the price of the last of them.
C15_PointPerUpdate ==
    job.pc = "idle" =>
        \A i \in 1..Len(trackitem) :
            LET pts == PointsFor(trackitem[i]._id)
            IN  /\ Len(pts) = Cardinality(CyclesIn(cyc.updates, trackitem[i]._id))
                /\ pts # <<>> => trackitem[i].current_price = pts[Len(pts)].price

\* C15, as the code has it: the collection only grows, by one PricePoint at a
\* time, which carries the id and the observed price of the item the job is at;
\* an item has one PricePoint for each cycle whose insert for it succeeded; and
\* between cycles an item whose inserts and updates succeeded in the same cycles
\* has as many PricePoints as updates, its current_price being the price of the
\* last one.
C15_PointPerSavedCycle ==
    [][ /\ pricepoint' # pricepoint =>
              /\ job.pc = "observe"
              /\ pricepoint' = Append(pricepoint, pricepoint'[Len(pricepoint')])
              /\ pricepoint'[Len(pricepoint')].trackitem_id = It._id
              /\ pricepoint'[Len(pricepoint')].price = job'.price
        /\ \A i \in 1..Len(trackitem') :
              LET id == trackitem'[i]._id
                  pts == SelectSeq(pricepoint', LAMBDA p : p.trackitem_id = id)
                  saved == CyclesIn(cyc'.points, id)
                  updated == CyclesIn(cyc'.updates, id)
              IN  /\ Len(pts) = Cardinality(saved)
                  /\ (job'.pc = "idle" /\ saved = updated) =>
                        /\ Len(pts) = Cardinality(updated)
                        /\ pts # <<>> => trackitem'[i].current_price = pts[Len(pts)].price ]_vars

\* two cycles saved a PricePoint of an item and updated it, the prices differ
\* and current_price is the later one
C15_Witness ==
    /\ job.pc = "idle"
    /\ \E i \in 1..Len(trackitem) :
          LET pts == PointsFor(trackitem[i]._id)
          IN  /\ Len(pts) = 2
              /\ CyclesIn(cyc.updates, trackitem[i]._id) = {1, 2}
              /\ pts[1].price # pts[2].price
              /\ trackitem[i].current_price = pts[2].price

-----------------------------------------------------------------------------
(* The timer: the cycles of SpecCheck, with firings of the timer at any moment *)

NextTimer ==
    \/ NextCheck
    \/ MissedRun

SpecTimer == Init /\ [][NextTimer]_vars

\* C16: a run of check_prices_job starts only when none is in progress; a
\* firing of the timer during a run starts nothing and changes nothing of the
\* run, the collections or the calls made; and no run makes two sendMessage
\* calls for one item.
C16_OneCycleAtATime ==
    [][ /\ cyc'.n # cyc.n => (job.pc = "idle" /\ cyc'.n = cyc.n + 1)
        /\ (job.pc # "idle" /\ cyc'.missed /\ ~cyc.missed) =>
              UNCHANGED <<job, user, trackitem, pricepoint, outbox>>
        /\ Len(outbox') > Len(outbox) =>
              \A i \in (cyc.outbox0 + 1)..Len(outbox) :
                  outbox[i].item # outbox'[Len(outbox')].item ]_vars

\* the timer fired while a run was at its second item, after the run had sent
\* the notification of the first
C16_Witness ==
    /\ cyc.missed
    /\ job.pc # "idle" /\ job.i = 2
    /\ Len(CycleCalls) = 1

-----------------------------------------------------------------------------
(* Handlers and cycles together: every handler that stores or reads, called by
   signed-in users while cycles run *)

NextFrame ==
    \/ reqs = EmptyBag /\ RegisterFind(<<"b", "x">>, "p1", None)
    \/ \E r \in BagToSet(reqs) : RegisterInsert(r)
    \/ \E e \in Emails : login(e, "p1")
    \/ reqs = EmptyBag /\ GoogleFind(<<"a", "x">>)
    \/ \E r \in BagToSet(reqs) : GoogleFinish(r)
    \/ \E e \in issued \cap {<<"a", "x">>}, u \in Urls :
          /\ reqs = EmptyBag
          /\ Len(trackitem) < MaxItems
          /\ CreateTrackCount(Bearer(e), u, 4000)
    \/ \E r \in BagToSet(reqs) : CreateTrackInsert(r)
    \/ \E e \in issued \cap {<<"a", "x">>} : list_tracks(Bearer(e))
    \/ \E e \in issued \cap {<<"a", "x">>}, id \in 1..MaxItems : get_pricepoints(Bearer(e), id)
    \/ \E e \in issued \cap {<<"a", "x">>} : save_telegram(Bearer(e), OneConfig)
    \/ cyc.n < MaxCycles /\ JobStart
    \/ JobObserve
    \/ JobLookup
    \/ JobNotify
    \/ JobUpdate

SpecFrame == InitQuota /\ [][NextFrame]_vars

\* a step of check_prices_job: no handler touches the job or its record
JobStep == job' # job \/ cyc' # cyc

\* C17: a step of a handler leaves status and current_price of every item as
\* they were and removes no item, and an item it adds has status 'tracking' and
\* no current_price; a step of check_prices_job leaves the user collection, the
\* number of items and every item's _id, user_email, url and target_price as
\* they were.
C17_SoleWriter ==
    [][ /\ ~JobStep =>
              /\ Len(trackitem') >= Len(trackitem)
              /\ \A i \in 1..Len(trackitem) :
                    /\ trackitem'[i].status = trackitem[i].status
                    /\ trackitem'[i].current_price = trackitem[i].current_price
              /\ \A i \in (Len(trackitem) + 1)..Len(trackitem') :
                    /\ trackitem'[i].status = "tracking"
                    /\ trackitem'[i].current_price = NoPrice
        /\ JobStep =>
              /\ user' = user
              /\ Len(trackitem') = Len(trackitem)
              /\ \A i \in 1..Len(trackitem) :
                    /\ trackitem'[i]._id = trackitem[i]._id
                    /\ trackitem'[i].user_email = trackitem[i].user_email
                    /\ trackitem'[i].url = trackitem[i].url
                    /\ trackitem'[i].target_price = trackitem[i].target_price ]_vars

\* create_track stored a second item during a cycle that had put the first in
\* 'deal', and the first is still in 'deal'
C17_Witness ==
    /\ resp.op = "create_track" /\ resp.code = 200
    /\ job.pc # "idle"
    /\ Len(trackitem) = 2
    /\ trackitem[1].status = "deal" /\ trackitem[1].current_price = 4000
    /\ trackitem[2].status = "tracking" /\ trackitem[2].current_price = NoPrice

-----------------------------------------------------------------------------
(* Long histories: get_pricepoints on the stores that up to PointsLimit + 2
   PricePoints of two items of one user make.  The points stand in the order
   the cycles appended them, recorded_at growing; which of them belong to the
   second item is drawn from three patterns. *)

MaxPoints == PointsLimit + 2

\* the item of the i-th PricePoint: pattern 0 gives every point to item 1, pattern
\* k > 0 every point at a multiple of k + 1 to item 2
ItemAt(k, i) == IF k > 0 /\ i % (k + 1) = 0 THEN 2 ELSE 1

\* the mocked price of the cycle that appended the i-th point
PriceAt(i) == IF i % 3 = 0 THEN 4500 ELSE 4000

\* the current_price of an item: the price of its last point
LastPrice(points, id) ==
    LET pts == SelectSeq(points, LAMBDA p : p.trackitem_id = id)
    IN  IF pts = <<>> THEN NoPrice ELSE pts[Len(pts)].price

InitHistory ==
    /\ user = <<User(<<"a","x">>, NoHash, "a")>>
    /\ issued = {<<"a","x">>}
    /\ \E n \in 0..MaxPoints, k \in 0..2 :
          /\ pricepoint = [i \in 1..n |-> PricePoint(ItemAt(k, i), PriceAt(i), i)]
          /\ trackitem = [id \in 1..2 |->
                [TrackItem(id, <<"a","x">>, "u1", 4000)
                    EXCEPT !.current_price = LastPrice(pricepoint, id),
                           !.status = IF LastPrice(pricepoint, id) = 4000
                                      THEN "deal" ELSE "tracking"]]
    /\ reqs = EmptyBag
    /\ resp = Response("none", <<>>, "", 0, "", <<>>)
    /\ hashmod = [u \in Urls |-> 0]
    /\ now = 0
    /\ job = IdleJob
    /\ cyc = NoCycle
    /\ outbox = <<>>
    /\ peak = [e \in Emails |-> 0]

NextHistory == \E id \in ItemIds : get_pricepoints(Bearer(<<"a","x">>), id)

SpecHistory == InitHistory /\ [][NextHistory]_vars

\* the most recent of the PricePoints all of an item: the last
\* min(n, 50) of them, oldest first, cut to price and recorded_at
MostRecent(all) ==
    LET n == Len(all)
        k == Min(n, PointsLimit)
    IN  [j \in 1..k |-> [price |-> all[n - k + j].price,
                         recorded_at |-> all[n - k + j].recorded_at]]

\* C18: for an item of the caller, named by any string that is its id,
\* get_pricepoints answers 200 with the min(n, 50) most recently recorded of
\* the item's n PricePoints, oldest first, and no point of another item.
C18_MostRecentPoints ==
    (resp.op = "get_pricepoints" /\ resp.code # 401 /\ ObjectIdOf(resp.id) \in IdsOf(resp.email)) =>
        /\ resp.code = 200
        /\ resp.items = MostRecent(PointsFor(ObjectIdOf(resp.id)))

\* the same for the id written as the server writes it (lower case)
C18_MostRecentPointsOfWrittenId ==
    (resp.op = "get_pricepoints" /\ resp.code # 401 /\ resp.id \in IdsOf(resp.email)) =>
        /\ resp.code = 200
        /\ resp.items = MostRecent(PointsFor(resp.id))

-----------------------------------------------------------------------------
(* One user per email, under SpecAuth *)

\* C19: the user collection holds at most one document for each email.
C19_OneUserPerEmail == \A e \in Emails : Len(UsersWith(e)) <= 1

====
